---- MODULE Spec2Model ----
(***************************************************************************)
(* The live attendance session of AttendRevolution: the SessionLive page   *)
(* (src/src/pages/teacher/SessionLive.tsx).  A step of the model is one    *)
(* browser task (the mount effects, an interval callback, a click handler) *)
(* together with the React commit that follows it: the state setters it    *)
(* called are applied and the effects whose dependencies changed are       *)
(* re-run, so that intervals are registered or cleared and the closures    *)
(* they hold are renewed.                                                  *)
(***************************************************************************)
EXTENDS Integers, Sequences, FiniteSets, TLC

\* ---------------------------------------------------------------- bounds
\* largest expectedBatch of a session configuration
MaxBatch == 2
\* largest timerMinutes of a session configuration
MaxTimerMinutes == 1
\* largest reading of the wall clock (new Date())
MaxClock == 2

\* most verifyTeacherId / verifyRollNo calls waiting in their await at once
MaxVerifications == 2

\* largest roll number the StudentScan page is entered with
MaxRollNo == 2

\* ------------------------------------------------------ program constants
\* sessionData.timerMinutes * 60
SecondsPerMinute == 60

\* ------------------------------------------------------------------ state
VARIABLES
    sessionData,        \* location.state?.sessionData
    mounted,            \* the effects of the first render have run
    timeRemaining,      \* useState(0)
    isActive,           \* useState(true)
    attendance,         \* useState<AttendanceRecord[]>([])
    showStopDialog,     \* useState(false)
    sessionEnded,       \* useState(false)
    clock,              \* the wall clock read by new Date()
    intervalAttendance, \* attendance seen by the endSession that the countdown interval holds
    endSessionCalls,    \* one entry per run of endSession: what it saved
    lastReport,         \* rows of the CSV of the last downloadReport
    lastOp              \* the handler that ran last, and its input

\* the CreateSession page, which hands sessionData over to the live page
VARIABLES
    page,               \* the route shown: "create", "live" or "home"
    variant,            \* which CreateSession of the repository renders the form
    form,               \* the useState strings of the required fields
    isCreating,         \* useState(false)
    formError,          \* the message of the last toast / setError, "" for none
    pendingNavigation   \* the sessionData held by the setTimeout of handleSubmit

createVars == <<page, variant, form, isCreating, formError, pendingNavigation>>

\* the RoleSelection page, which opens the CreateSession and StudentScan pages
VARIABLES
    showTeacherDialog,  \* useState(false)
    showStudentDialog,  \* useState(false)
    teacherId,          \* useState(""), the text of the Teacher ID input
    rollNo,             \* useState(""), the text of the Roll Number input
    error,              \* useState("")
    isVerifying,        \* useState(false)
    verifications,      \* the verifyTeacherId / verifyRollNo calls waiting in their await
    locationState       \* the state passed by the last navigate of RoleSelection

roleVars == <<showTeacherDialog, showStudentDialog, teacherId, rollNo, error, isVerifying,
              verifications, locationState>>

\* the StudentScan page
VARIABLES
    scanMounted,        \* the effects of the first render of StudentScan have run
    cameraActive,       \* useState(false)
    cameraError,        \* useState<string | null>(null), "" for null
    isScanning,         \* useState(false)
    attendanceMarked,   \* useState(false)
    cameraRequest,      \* getUserMedia: "none", "pending" or "settled"
    stream,             \* the camera stream: "none", "attached" to the video, "loose" or "stopped"
    autoScanTimeout,    \* the auto-scan effect's setTimeout(simulateScan, 3000) is pending
    fallbackTimeout,    \* startCamera's setTimeout(simulateScan, 3000) is pending
    markTimeouts,       \* how many setTimeout callbacks of simulateScan are pending
    simulateScanCalls,  \* how often simulateScan has run
    attendanceLog       \* the { rollNo, timestamp } records logged as "Attendance marked"

scanVars == <<scanMounted, cameraActive, cameraError, isScanning, attendanceMarked,
              cameraRequest, stream, autoScanTimeout, fallbackTimeout, markTimeouts,
              simulateScanCalls, attendanceLog>>

vars == <<sessionData, mounted, timeRemaining, isActive, attendance, showStopDialog,
          sessionEnded, clock, intervalAttendance, endSessionCalls, lastReport, lastOp,
          createVars, roleVars, scanVars>>

\* location.state without sessionData
NoSessionData == [defined |-> FALSE, expectedBatch |-> 0, timerMinutes |-> 0]

\* the session configurations handed over by navigation; CreateSession.tsx
\* hands over expectedBatch 0 when parseInt reads 0 from the batch text
SessionConfigs ==
    [defined : {TRUE}, expectedBatch : 0..MaxBatch, timerMinutes : 1..MaxTimerMinutes]

\* lastOp: the handler, its roll number, and whether it repeats or comes late:
\* the roll number was already marked, the report had just been downloaded,
\* the page that scheduled the navigation had been left
Op(name, roll, was) == [op |-> name, rollNo |-> roll, already |-> was]

\* ---------------------------------------------------------- pure helpers
\* prev.find(a => a.rollNo === randomRoll)
Find(prev, randomRoll) == \E i \in 1..Len(prev) : prev[i].rollNo = randomRoll

\* the updater without the duplicate check
MarkNoCheck(prev, randomRoll, now) ==
    Append(prev, [rollNo |-> randomRoll, markedAt |-> now])

\* the updater that lets the last marking win
MarkLastWins(prev, randomRoll, now) ==
    IF Find(prev, randomRoll)
    THEN [i \in 1..Len(prev) |->
            IF prev[i].rollNo = randomRoll
            THEN [rollNo |-> randomRoll, markedAt |-> now]
            ELSE prev[i]]
    ELSE Append(prev, [rollNo |-> randomRoll, markedAt |-> now])

\* the updater that forgets ...prev
MarkForgetsPrev(prev, randomRoll, now) ==
    IF Find(prev, randomRoll)
    THEN prev
    ELSE <<[rollNo |-> randomRoll, markedAt |-> now]>>

\* the setAttendance updater of simulateScans
Mark(prev, randomRoll, now) ==
    IF Find(prev, randomRoll)
    THEN prev
    ELSE Append(prev, [rollNo |-> randomRoll, markedAt |-> now])

\* insertion under the comparator (a, b) => b.rollNo - a.rollNo
RECURSIVE InsertSortedDescending(_, _)
InsertSortedDescending(sorted, a) ==
    IF sorted = <<>> THEN <<a>>
    ELSE IF Head(sorted).rollNo - a.rollNo < 0
         THEN <<a>> \o sorted
         ELSE <<Head(sorted)>> \o InsertSortedDescending(Tail(sorted), a)

\* insertion of one record into a list sorted by rollNo, after its equals
RECURSIVE InsertSorted(_, _)
InsertSorted(sorted, a) ==
    IF sorted = <<>> THEN <<a>>
    ELSE IF a.rollNo - Head(sorted).rollNo < 0
         THEN <<a>> \o sorted
         ELSE <<Head(sorted)>> \o InsertSorted(Tail(sorted), a)

\* attendance.sort((a, b) => a.rollNo - b.rollNo): a stable ascending sort
RECURSIVE SortByRollNo(_)
SortByRollNo(list) ==
    IF list = <<>> THEN <<>>
    ELSE InsertSorted(SortByRollNo(SubSeq(list, 1, Len(list) - 1)), list[Len(list)])

\* the data rows of the CSV, `${a.rollNo},${a.markedAt.toISOString()}`, each as
\* the pair of its two columns; the header row is the same in every report
ReportRows(list) == [i \in 1..Len(list) |-> <<list[i].rollNo, list[i].markedAt>>]

\* the values of Math.floor(Math.random() * expectedBatch) + 1, Math.random()
\* ranging over [0, 1)
RandomRolls(expectedBatch) ==
    IF expectedBatch > 0 THEN 1..expectedBatch ELSE (expectedBatch + 1)..1

\* what endSession logs as saved, with the way and the moment it was reached
SavedRecord(via, seen, remaining) ==
    [via |-> via, attendance |-> seen, totalPresent |-> Len(seen), timeRemaining |-> remaining]

\* the timer-init effect without the conversion to seconds
InitialTimeInMinutes(data) == data.timerMinutes

\* the timer-init effect: sessionData.timerMinutes * 60
InitialTime(data) == data.timerMinutes * SecondsPerMinute

\* the expiry test prev <= 0
ExpiresLate(prev) == prev <= 0

\* the expiry test of the countdown updater: prev <= 1
Expires(prev) == prev <= 1

\* an expiring updater that returns prev
ExpiredTimeKept(prev) == prev

\* what the countdown updater returns on expiry: return 0
ExpiredTime(prev) == 0

\* a countdown effect that returns early for timeRemaining <= 1
CountdownIntervalStopsEarly == mounted /\ isActive /\ timeRemaining > 1

\* the countdown effect registers its interval
CountdownInterval == mounted /\ isActive /\ timeRemaining > 0

\* a simulateScans effect without the sessionData guard
ScanIntervalWithoutData == mounted /\ isActive

\* the scan effect registers its interval whatever isActive is
ScanIntervalAlways == mounted /\ sessionData.defined

\* the simulateScans effect registers its interval
ScanInterval == mounted /\ isActive /\ sessionData.defined

\* ------------------------------------------- CreateSession: pure helpers
\* The strings of the form are sequences of characters.
Digits == {"0", "1", "2", "3", "4", "5", "6", "7", "8", "9"}

\* the value of a decimal digit
DigitValue(c) ==
    CASE c = "0" -> 0 [] c = "1" -> 1 [] c = "2" -> 2 [] c = "3" -> 3 [] c = "4" -> 4
      [] c = "5" -> 5 [] c = "6" -> 6 [] c = "7" -> 7 [] c = "8" -> 8 [] c = "9" -> 9

\* how many decimal digits text holds from position i on
RECURSIVE DigitRun(_, _)
DigitRun(text, i) ==
    IF i <= Len(text) /\ text[i] \in Digits THEN 1 + DigitRun(text, i + 1) ELSE 0

\* the number written by the n digits of text from position i on
RECURSIVE DigitsValue(_, _, _)
DigitsValue(text, i, n) ==
    IF n = 0 THEN 0 ELSE DigitsValue(text, i, n - 1) * 10 + DigitValue(text[i + n - 1])

RECURSIVE Pow10(_)
Pow10(k) == IF k = 0 THEN 1 ELSE 10 * Pow10(k - 1)

\* how many white-space characters text starts with
RECURSIVE LeadingSpaces(_)
LeadingSpaces(text) ==
    IF text # <<>> /\ Head(text) = " " THEN 1 + LeadingSpaces(Tail(text)) ELSE 0

\* String.prototype.trim
Trim(text) ==
    LET lead  == LeadingSpaces(text)
        trail == LeadingSpaces([i \in 1..Len(text) |-> text[Len(text) + 1 - i]])
    IN  IF lead = Len(text) THEN <<>> ELSE SubSeq(text, lead + 1, Len(text) - trail)

\* a JavaScript number: NaN, or the integer n
NaN == [nan |-> TRUE, n |-> 0]
Num(k) == [nan |-> FALSE, n |-> k]

\* parseInt(text), radix 10: leading white space, a sign, then the longest run
\* of digits; whatever follows the digits is ignored; no digit gives NaN
ParseInt(text) ==
    LET start    == LeadingSpaces(text) + 1
        negative == start <= Len(text) /\ text[start] = "-"
        first    == IF start <= Len(text) /\ text[start] \in {"-", "+"} THEN start + 1 ELSE start
        n        == DigitRun(text, first)
    IN  IF n = 0 THEN NaN
        ELSE Num(IF negative THEN 0 - DigitsValue(text, first, n) ELSE DigitsValue(text, first, n))

\* The value of <input type="number"> read as the browser reads it, a decimal
\* literal with an optional fraction and exponent: ok tells whether text is
\* such a literal, and its value is (-1)^negative * digits * 10^exponent
FloatingPoint(text) ==
    LET negative == text # <<>> /\ text[1] = "-"
        first    == IF negative THEN 2 ELSE 1
        n        == DigitRun(text, first)
        dot      == first + n <= Len(text) /\ text[first + n] = "."
        f        == IF dot THEN DigitRun(text, first + n + 1) ELSE 0
        mark     == first + n + (IF dot THEN 1 + f ELSE 0)
        exp      == mark <= Len(text) /\ text[mark] \in {"e", "E"}
        signed   == exp /\ mark + 1 <= Len(text) /\ text[mark + 1] \in {"-", "+"}
        expFirst == mark + 1 + (IF signed THEN 1 ELSE 0)
        e        == IF exp THEN DigitRun(text, expFirst) ELSE 0
        expValue == IF signed /\ text[mark + 1] = "-"
                    THEN 0 - DigitsValue(text, expFirst, e)
                    ELSE DigitsValue(text, expFirst, e)
        end      == IF exp THEN expFirst + e ELSE mark
    IN  [ok       |-> /\ n >= 1 \/ dot
                      /\ dot => f >= 1
                      /\ exp => e >= 1
                      /\ end = Len(text) + 1,
         negative |-> negative,
         digits   |-> DigitsValue(text, first, n) * Pow10(f) + DigitsValue(text, first + n + 1, f),
         exponent |-> expValue - f]

\* the constraint validation of <input type="number" min="1"> (no step, not
\* required) that the browser runs before it dispatches the submit event: an
\* empty value passes; any other value must be a whole number >= 1
ConstraintValid(text) ==
    \/ text = <<>>
    \/ LET v == FloatingPoint(text)
       IN  /\ v.ok
           /\ ~v.negative
           /\ IF v.exponent >= 0
              THEN v.digits >= 1
              ELSE /\ v.digits >= Pow10(0 - v.exponent)
                   /\ v.digits % Pow10(0 - v.exponent) = 0

\* the CreateSession pages of the repository that validate the form
Variants == {"CreateSession.tsx", "part_001", "part_002"}

\* the fields handleSubmit requires
RequiredFields == {"semester", "year", "shift", "className", "sessionType", "courseName",
                   "expectedBatch", "timer", "timeFrom", "timeTo"}

\* useState("") of every field
EmptyForm == [field \in RequiredFields |-> <<>>]

\* a timer Select that also offers 1 minute
TimerTextsFromOne == {<<"1">>, <<"2">>, <<"3">>, <<"4">>, <<"5">>}

\* the options of the timer Select
TimerTexts == {<<"2">>, <<"3">>, <<"4">>, <<"5">>}

\* what is typed into the expectedBatch input: nothing, 0, 2, -1, 0.5e1, 1.5
\* (for none of them parseInt gives NaN once the text is not empty)
BatchTexts == {<<>>, <<"0">>, <<"2">>, <<"-", "1">>, <<"0", ".", "5", "e", "1">>,
               <<"1", ".", "5">>}

\* the values a field is given: a Select or a choice button cannot be emptied
\* again, a text or time input can; <<"x">> stands for any text that is not
\* empty, <<" ">> for white space only
FieldTexts(field) ==
    CASE field = "expectedBatch" -> BatchTexts
      [] field = "timer" -> TimerTexts
      [] field = "className" -> {<<>>, <<" ">>, <<"x">>}
      [] field \in {"courseName", "timeFrom", "timeTo"} -> {<<>>, <<"x">>}
      [] OTHER -> {<<"x">>}

\* no setTimeout of handleSubmit is pending
NoNavigation == [defined |-> FALSE, expectedBatch |-> NaN, timerMinutes |-> NaN]

\* the sessionData handleSubmit builds: expectedBatch: parseInt(expectedBatch),
\* timerMinutes: parseInt(timer)
NewSessionData(fields) ==
    [defined |-> TRUE, expectedBatch |-> ParseInt(fields["expectedBatch"]),
     timerMinutes |-> ParseInt(fields["timer"])]

\* x <= 0 on JavaScript numbers: false for NaN
NotPositive(x) == ~x.nan /\ x.n <= 0

\* a required-fields test that leaves timeTo out
MissingFieldsErrorButTimeTo(fields) ==
    IF \E field \in RequiredFields \ {"timeTo"} : fields[field] = <<>>
    THEN "Missing Fields" ELSE ""

\* CreateSession.tsx: if (!semester || !year || ... || !timeTo) toast "Missing Fields"
MissingFieldsError(fields) ==
    IF \E field \in RequiredFields : fields[field] = <<>> THEN "Missing Fields" ELSE ""

\* part_002: the fields validateForm marks
ValidateForm(fields) ==
    {field \in RequiredFields :
        CASE field \in {"className", "courseName"} -> Trim(fields[field]) = <<>>
          [] field = "expectedBatch" ->
                fields[field] = <<>> \/ NotPositive(ParseInt(fields[field]))
          [] OTHER -> fields[field] = <<>>}

\* part_002: the error handleSubmit sets after setError("")
ValidatedError(fields) ==
    IF ValidateForm(fields) # {} THEN "Please fill in all required fields"
    ELSE IF ParseInt(fields["expectedBatch"]).nan \/ NotPositive(ParseInt(fields["expectedBatch"]))
         THEN "Expected batch size must be a positive number"
         ELSE ""

\* part_001: the error handleSubmit sets after setError("")
PositiveBatchError(fields) ==
    IF \E field \in RequiredFields : fields[field] = <<>>
    THEN "Please fill in all required fields"
    ELSE IF ParseInt(fields["expectedBatch"]).nan \/ NotPositive(ParseInt(fields["expectedBatch"]))
         THEN "Expected batch size must be a positive number"
         ELSE ""

\* the error handleSubmit reports for the form, "" when it accepts it
SubmitError(which, fields) ==
    CASE which = "part_002" -> ValidatedError(fields)
      [] which = "part_001" -> PositiveBatchError(fields)
      [] OTHER -> MissingFieldsError(fields)

\* ------------------------------------------- RoleSelection: pure helpers
\* const VALID_TEACHER_IDS = ["T001", "T002", "T003", "TEACH123", "ADMIN"]
VALID_TEACHER_IDS ==
    {<<"T", "0", "0", "1">>, <<"T", "0", "0", "2">>, <<"T", "0", "0", "3">>,
     <<"T", "E", "A", "C", "H", "1", "2", "3">>, <<"A", "D", "M", "I", "N">>}

LowerCase == <<"a", "b", "c", "d", "e", "f", "g", "h", "i", "j", "k", "l", "m",
               "n", "o", "p", "q", "r", "s", "t", "u", "v", "w", "x", "y", "z">>

UpperCase == <<"A", "B", "C", "D", "E", "F", "G", "H", "I", "J", "K", "L", "M",
               "N", "O", "P", "Q", "R", "S", "T", "U", "V", "W", "X", "Y", "Z">>

\* String.prototype.toUpperCase
ToUpperCase(text) ==
    [i \in 1..Len(text) |->
        IF \E k \in 1..Len(LowerCase) : LowerCase[k] = text[i]
        THEN UpperCase[CHOOSE k \in 1..Len(LowerCase) : LowerCase[k] = text[i]]
        ELSE text[i]]

\* what is typed into the Teacher ID input: nothing, a blank, t001, T009
TeacherIdTexts == {<<>>, <<" ">>, <<"t", "0", "0", "1">>, <<"T", "0", "0", "9">>}

\* what the Roll Number input (type="number") holds: nothing (also for a text
\* that is no number), 0, 7, -3, 1.5
RollNoTexts == {<<>>, <<"0">>, <<"7">>, <<"-", "3">>, <<"1", ".", "5">>}

\* no state was passed by a navigate of RoleSelection
NoLocationState == [teacherId |-> <<>>, rollNo |-> NaN]

\* a call of verifyTeacherId waiting in its await, with the teacherId of its closure
TeacherVerification(id) == [kind |-> "teacher", teacherId |-> id, rollNumber |-> NaN]

\* a call of verifyRollNo waiting in its await, with the rollNumber of its closure
StudentVerification(number) == [kind |-> "student", teacherId |-> <<>>, rollNumber |-> number]

\* verifyTeacherId: if (!teacherId.trim())
TeacherIdMissing(id) == Trim(id) = <<>>

\* a verifyRollNo that only tests for an empty text
RollNoInvalidOnlyEmpty(text) == Trim(text) = <<>>

\* verifyRollNo: if (!rollNo.trim() || isNaN(rollNumber) || rollNumber <= 0)
RollNoInvalid(text) ==
    Trim(text) = <<>> \/ ParseInt(text).nan \/ NotPositive(ParseInt(text))

\* the sequence without its i-th element
Without(seq, i) == SubSeq(seq, 1, i - 1) \o SubSeq(seq, i + 1, Len(seq))

\* the useState values of a RoleSelection that is not rendered, or just constructed
RoleSelectionInit ==
    /\ showTeacherDialog = FALSE
    /\ showStudentDialog = FALSE
    /\ teacherId = <<>>
    /\ rollNo = <<>>
    /\ error = ""
    /\ isVerifying = FALSE

\* --------------------------------------------- StudentScan: pure helpers
\* if (!rollNo): no state was passed, or the roll number passed is 0 or NaN
RollNoMissing(state) == state.rollNo.nan \/ state.rollNo.n = 0

\* an auto-scan effect that does not look at attendanceMarked
AutoScanEffectIgnoresMarked(active, marked) == active

\* the auto-scan effect sets its timeout: if (cameraActive && !attendanceMarked)
AutoScanEffect(active, marked) == active /\ ~marked

\* the state of a StudentScan that is not rendered, or just constructed, with
\* no request, stream or timer of an earlier visit left
StudentScanInit ==
    /\ scanMounted = FALSE
    /\ cameraActive = FALSE
    /\ cameraError = ""
    /\ isScanning = FALSE
    /\ attendanceMarked = FALSE
    /\ cameraRequest = "none"
    /\ stream = "none"
    /\ autoScanTimeout = FALSE
    /\ fallbackTimeout = FALSE
    /\ markTimeouts = 0
    /\ simulateScanCalls = 0
    /\ attendanceLog = <<>>

\* ------------------------------------------------------------------- Init
Init ==
    /\ sessionData \in SessionConfigs \cup {NoSessionData}
    /\ mounted = FALSE
    /\ timeRemaining = 0
    /\ isActive = TRUE
    /\ attendance = <<>>
    /\ showStopDialog = FALSE
    /\ sessionEnded = FALSE
    /\ clock = 0
    /\ intervalAttendance = <<>>
    /\ endSessionCalls = <<>>
    /\ lastReport = <<>>
    /\ lastOp = Op("init", 0, FALSE)
    /\ page = "live"
    /\ variant = "CreateSession.tsx"
    /\ form = EmptyForm
    /\ isCreating = FALSE
    /\ formError = ""
    /\ pendingNavigation = NoNavigation
    /\ RoleSelectionInit
    /\ verifications = <<>>
    /\ locationState = NoLocationState
    /\ StudentScanInit

\* ---------------------------------------------------------------- actions
\* endSession as called from a closure that saw the attendance `seen`:
\* setIsActive(false), setSessionEnded(true) and the saving of the attendance
EndSession(via, seen) ==
    /\ isActive' = FALSE
    /\ sessionEnded' = TRUE
    /\ endSessionCalls' = Append(endSessionCalls, SavedRecord(via, seen, timeRemaining))

\* a timer-init effect that runs again after later renders
MountEveryRender ==
    /\ page = "live"
    /\ mounted' = TRUE
    /\ timeRemaining' = IF sessionData.defined THEN InitialTime(sessionData) ELSE timeRemaining
    /\ intervalAttendance' = attendance
    /\ lastOp' = Op("mount", 0, FALSE)
    /\ UNCHANGED <<createVars, roleVars, scanVars>>
    /\ UNCHANGED <<sessionData, isActive, attendance, showStopDialog, sessionEnded,
                   clock, endSessionCalls, lastReport>>

\* the effects of the first render: the timer is initialised, and the commit
\* of that update registers the countdown interval
Mount ==
    /\ page = "live"
    /\ ~mounted
    /\ mounted' = TRUE
    /\ timeRemaining' = IF sessionData.defined THEN InitialTime(sessionData) ELSE timeRemaining
    /\ intervalAttendance' = attendance
    /\ lastOp' = Op("mount", 0, FALSE)
    /\ UNCHANGED <<createVars, roleVars, scanVars>>
    /\ UNCHANGED <<sessionData, isActive, attendance, showStopDialog, sessionEnded,
                   clock, endSessionCalls, lastReport>>

\* the countdown interval callback: setTimeRemaining(prev => ...), and on
\* expiry setIsActive(false) and the endSession of the render that registered
\* the interval; otherwise the commit registers a new interval, whose
\* endSession sees the attendance of that render
Tick ==
    /\ CountdownInterval
    /\ IF Expires(timeRemaining)
       THEN /\ EndSession("expiry", intervalAttendance)
            /\ timeRemaining' = ExpiredTime(timeRemaining)
            /\ UNCHANGED intervalAttendance
       ELSE /\ timeRemaining' = timeRemaining - 1
            /\ intervalAttendance' = attendance
            /\ UNCHANGED <<isActive, sessionEnded, endSessionCalls>>
    /\ lastOp' = Op("tick", 0, FALSE)
    /\ UNCHANGED <<createVars, roleVars, scanVars>>
    /\ UNCHANGED <<sessionData, mounted, attendance, showStopDialog, clock, lastReport>>

\* the simulateScans interval callback, randomRoll = floor(random * expectedBatch) + 1
SimulateScan(randomRoll) ==
    /\ ScanInterval
    /\ attendance' = Mark(attendance, randomRoll, clock)
    /\ lastOp' = Op("scan", randomRoll, Find(attendance, randomRoll))
    /\ UNCHANGED <<createVars, roleVars, scanVars>>
    /\ UNCHANGED <<sessionData, mounted, timeRemaining, isActive, showStopDialog,
                   sessionEnded, clock, intervalAttendance, endSessionCalls, lastReport>>

\* the End Session button, disabled unless isActive
HandleStopSession ==
    /\ mounted /\ sessionData.defined /\ isActive
    /\ showStopDialog' = TRUE
    /\ lastOp' = Op("handleStop", 0, FALSE)
    /\ UNCHANGED <<createVars, roleVars, scanVars>>
    /\ UNCHANGED <<sessionData, mounted, timeRemaining, isActive, attendance,
                   sessionEnded, clock, intervalAttendance, endSessionCalls, lastReport>>

\* a Continue button that resumes the session
CancelStopDialogResumes ==
    /\ showStopDialog
    /\ showStopDialog' = FALSE
    /\ isActive' = TRUE
    /\ lastOp' = Op("cancelStop", 0, FALSE)
    /\ UNCHANGED <<createVars, roleVars, scanVars>>
    /\ UNCHANGED <<sessionData, mounted, timeRemaining, attendance,
                   sessionEnded, clock, intervalAttendance, endSessionCalls, lastReport>>

\* the dialog's Continue button or its dismissal: onOpenChange(false)
CancelStopDialog ==
    /\ showStopDialog
    /\ showStopDialog' = FALSE
    /\ lastOp' = Op("cancelStop", 0, FALSE)
    /\ UNCHANGED <<createVars, roleVars, scanVars>>
    /\ UNCHANGED <<sessionData, mounted, timeRemaining, isActive, attendance,
                   sessionEnded, clock, intervalAttendance, endSessionCalls, lastReport>>

\* a confirmStopSession whose endSession toggles isActive
ConfirmStopSessionToggles ==
    /\ showStopDialog
    /\ showStopDialog' = FALSE
    /\ isActive' = ~isActive
    /\ sessionEnded' = TRUE
    /\ endSessionCalls' = Append(endSessionCalls, SavedRecord("stop", attendance, timeRemaining))
    /\ lastOp' = Op("confirmStop", 0, FALSE)
    /\ UNCHANGED <<createVars, roleVars, scanVars>>
    /\ UNCHANGED <<sessionData, mounted, timeRemaining, attendance, clock,
                   intervalAttendance, lastReport>>

\* a confirmStopSession whose endSession leaves isActive alone
ConfirmStopSessionStaysActive ==
    /\ showStopDialog
    /\ showStopDialog' = FALSE
    /\ sessionEnded' = TRUE
    /\ endSessionCalls' = Append(endSessionCalls, SavedRecord("stop", attendance, timeRemaining))
    /\ lastOp' = Op("confirmStop", 0, FALSE)
    /\ UNCHANGED <<createVars, roleVars, scanVars>>
    /\ UNCHANGED <<sessionData, mounted, timeRemaining, isActive, attendance, clock,
                   intervalAttendance, lastReport>>

\* a confirmStopSession that also resets the timer
ConfirmStopSessionResetsTimer ==
    /\ showStopDialog
    /\ showStopDialog' = FALSE
    /\ EndSession("stop", attendance)
    /\ timeRemaining' = 0
    /\ lastOp' = Op("confirmStop", 0, FALSE)
    /\ UNCHANGED <<createVars, roleVars, scanVars>>
    /\ UNCHANGED <<sessionData, mounted, attendance, clock, intervalAttendance, lastReport>>

\* the dialog's End Session button: confirmStopSession, with the endSession
\* of the current render
ConfirmStopSession ==
    /\ showStopDialog
    /\ showStopDialog' = FALSE
    /\ EndSession("stop", attendance)
    /\ lastOp' = Op("confirmStop", 0, FALSE)
    /\ UNCHANGED <<createVars, roleVars, scanVars>>
    /\ UNCHANGED <<sessionData, mounted, timeRemaining, attendance, clock,
                   intervalAttendance, lastReport>>

\* a Download Report button that is shown whatever sessionEnded is
DownloadReportAnytime ==
    /\ mounted /\ sessionData.defined
    /\ attendance' = SortByRollNo(attendance)
    /\ lastReport' = ReportRows(SortByRollNo(attendance))
    /\ lastOp' = Op("download", 0, lastOp.op = "download")
    /\ UNCHANGED <<createVars, roleVars, scanVars>>
    /\ UNCHANGED <<sessionData, mounted, timeRemaining, isActive, showStopDialog,
                   sessionEnded, clock, intervalAttendance, endSessionCalls>>

\* the Download Report button of the overlay: the array held in state is
\* sorted in place and its rows are written out
DownloadReport ==
    /\ mounted /\ sessionData.defined /\ sessionEnded
    /\ attendance' = SortByRollNo(attendance)
    /\ lastReport' = ReportRows(SortByRollNo(attendance))
    /\ lastOp' = Op("download", 0, lastOp.op = "download")
    /\ UNCHANGED <<createVars, roleVars, scanVars>>
    /\ UNCHANGED <<sessionData, mounted, timeRemaining, isActive, showStopDialog,
                   sessionEnded, clock, intervalAttendance, endSessionCalls>>

\* time passes between two browser tasks
TimePasses ==
    /\ clock < MaxClock
    /\ clock' = clock + 1
    /\ UNCHANGED <<createVars, roleVars, scanVars>>
    /\ UNCHANGED <<sessionData, mounted, timeRemaining, isActive, attendance,
                   showStopDialog, sessionEnded, intervalAttendance, endSessionCalls,
                   lastReport, lastOp>>

\* one firing of the simulateScans interval, whatever Math.random() returns
Scan == \E randomRoll \in RandomRolls(sessionData.expectedBatch) : SimulateScan(randomRoll)

Next ==
    \/ Mount
    \/ Tick
    \/ Scan
    \/ HandleStopSession
    \/ CancelStopDialog
    \/ ConfirmStopSession
    \/ DownloadReport
    \/ TimePasses

Spec == Init /\ [][Next]_vars

\* the effects of the first render always run, and a registered countdown
\* interval keeps firing once a second
FairSpec == Spec /\ WF_vars(Mount) /\ WF_vars(Tick)

\* ------------------------------------------------- the CreateSession page
\* the state after the CreateSession page is constructed; SessionLive is not
\* rendered yet
CreateInit ==
    /\ page = "create"
    /\ variant \in Variants
    /\ form = EmptyForm
    /\ isCreating = FALSE
    /\ formError = ""
    /\ pendingNavigation = NoNavigation
    /\ RoleSelectionInit
    /\ verifications = <<>>
    /\ locationState = NoLocationState
    /\ StudentScanInit
    /\ sessionData = NoSessionData
    /\ mounted = FALSE
    /\ timeRemaining = 0
    /\ isActive = TRUE
    /\ attendance = <<>>
    /\ showStopDialog = FALSE
    /\ sessionEnded = FALSE
    /\ clock = 0
    /\ intervalAttendance = <<>>
    /\ endSessionCalls = <<>>
    /\ lastReport = <<>>
    /\ lastOp = Op("init", 0, FALSE)

\* the state of SessionLive, but for the sessionData navigation hands over
liveState == <<mounted, timeRemaining, isActive, attendance, showStopDialog, sessionEnded,
               clock, intervalAttendance, endSessionCalls, lastReport>>

\* onChange / onValueChange / onClick of a field: setSemester, ..., setTimeTo
ChangeField(field, text) ==
    /\ page = "create"
    /\ text # form[field]
    /\ form' = [form EXCEPT ![field] = text]
    /\ lastOp' = Op("changeField", 0, FALSE)
    /\ UNCHANGED <<page, variant, isCreating, formError, pendingNavigation>>
    /\ UNCHANGED <<sessionData, liveState, roleVars, scanVars>>

SetField == \E field \in RequiredFields : \E text \in FieldTexts(field) : ChangeField(field, text)

\* the submit button (disabled while isCreating): the browser validates the
\* expectedBatch input, then handleSubmit reports an error, or sets isCreating
\* and schedules the navigation
HandleSubmit ==
    /\ page = "create"
    /\ ~isCreating
    /\ ConstraintValid(form["expectedBatch"])
    /\ LET problem == SubmitError(variant, form)
       IN  /\ formError' = IF problem # "" THEN problem
                           ELSE IF variant = "CreateSession.tsx" THEN formError ELSE ""
           /\ isCreating' = (problem = "")
           /\ pendingNavigation' = IF problem = "" THEN NewSessionData(form)
                                   ELSE pendingNavigation
    /\ lastOp' = Op("handleSubmit", 0, FALSE)
    /\ UNCHANGED <<page, variant, form>>
    /\ UNCHANGED <<sessionData, liveState, roleVars, scanVars>>

\* the setTimeout callback of handleSubmit: setIsCreating(false) and
\* navigate(".../live", { state: { sessionData } }); the page shown is
\* unmounted and SessionLive is constructed with the sessionData
NavigateToLive ==
    /\ pendingNavigation.defined
    /\ page' = "live"
    /\ sessionData' = [defined |-> TRUE,
                       expectedBatch |-> pendingNavigation.expectedBatch.n,
                       timerMinutes |-> pendingNavigation.timerMinutes.n]
    /\ pendingNavigation' = NoNavigation
    /\ form' = EmptyForm
    /\ isCreating' = FALSE
    /\ formError' = ""
    /\ lastOp' = Op("navigateToLive", 0, page = "home")
    /\ UNCHANGED <<variant, liveState, roleVars, scanVars>>

\* a "Back to Home" whose unmount clears the setTimeout of handleSubmit
BackToHomeClearsTimeout ==
    /\ page = "create"
    /\ page' = "home"
    /\ form' = EmptyForm
    /\ isCreating' = FALSE
    /\ formError' = ""
    /\ pendingNavigation' = NoNavigation
    /\ lastOp' = Op("backToHome", 0, FALSE)
    /\ UNCHANGED variant
    /\ UNCHANGED <<sessionData, liveState, roleVars, scanVars>>

\* "Back to Home": navigate("/") unmounts the page; a pending setTimeout is
\* not cleared
BackToHome ==
    /\ page = "create"
    /\ page' = "home"
    /\ form' = EmptyForm
    /\ isCreating' = FALSE
    /\ formError' = ""
    /\ lastOp' = Op("backToHome", 0, FALSE)
    /\ UNCHANGED <<variant, pendingNavigation>>
    /\ UNCHANGED <<sessionData, liveState, roleVars, scanVars>>

\* the CreateSession page, up to the first render of the SessionLive page it
\* navigates to
NextCreate ==
    \/ SetField
    \/ HandleSubmit
    \/ NavigateToLive
    \/ BackToHome
    \/ Mount

SpecCreate == CreateInit /\ [][NextCreate]_vars

\* a scheduled setTimeout callback is run by the browser
FairSpecCreate == SpecCreate /\ WF_vars(NavigateToLive)

\* ------------------------------------------------- the RoleSelection page
\* the state after the RoleSelection page is constructed; no other page has
\* been rendered yet
RoleInit ==
    /\ page = "home"
    /\ RoleSelectionInit
    /\ verifications = <<>>
    /\ locationState = NoLocationState
    /\ StudentScanInit
    /\ variant \in Variants
    /\ form = EmptyForm
    /\ isCreating = FALSE
    /\ formError = ""
    /\ pendingNavigation = NoNavigation
    /\ sessionData = NoSessionData
    /\ mounted = FALSE
    /\ timeRemaining = 0
    /\ isActive = TRUE
    /\ attendance = <<>>
    /\ showStopDialog = FALSE
    /\ sessionEnded = FALSE
    /\ clock = 0
    /\ intervalAttendance = <<>>
    /\ endSessionCalls = <<>>
    /\ lastReport = <<>>
    /\ lastOp = Op("init", 0, FALSE)

\* the Teacher card, reachable while no dialog covers it
HandleTeacherClick ==
    /\ page = "home" /\ ~showTeacherDialog /\ ~showStudentDialog
    /\ showTeacherDialog' = TRUE
    /\ teacherId' = <<>>
    /\ error' = ""
    /\ lastOp' = Op("handleTeacherClick", 0, FALSE)
    /\ UNCHANGED <<showStudentDialog, rollNo, isVerifying, verifications, locationState>>
    /\ UNCHANGED <<sessionData, liveState, createVars, scanVars>>

\* the Student card, reachable while no dialog covers it
HandleStudentClick ==
    /\ page = "home" /\ ~showTeacherDialog /\ ~showStudentDialog
    /\ showStudentDialog' = TRUE
    /\ rollNo' = <<>>
    /\ error' = ""
    /\ lastOp' = Op("handleStudentClick", 0, FALSE)
    /\ UNCHANGED <<showTeacherDialog, teacherId, isVerifying, verifications, locationState>>
    /\ UNCHANGED <<sessionData, liveState, createVars, scanVars>>

\* the open dialog is dismissed: onOpenChange(false)
CloseDialog ==
    /\ page = "home" /\ (showTeacherDialog \/ showStudentDialog)
    /\ showTeacherDialog' = FALSE
    /\ showStudentDialog' = FALSE
    /\ lastOp' = Op("closeDialog", 0, FALSE)
    /\ UNCHANGED <<teacherId, rollNo, error, isVerifying, verifications, locationState>>
    /\ UNCHANGED <<sessionData, liveState, createVars, scanVars>>

\* onChange of the Teacher ID input
ChangeTeacherId(text) ==
    /\ page = "home" /\ showTeacherDialog
    /\ text # teacherId
    /\ teacherId' = text
    /\ error' = ""
    /\ lastOp' = Op("changeTeacherId", 0, FALSE)
    /\ UNCHANGED <<showTeacherDialog, showStudentDialog, rollNo, isVerifying, verifications,
                   locationState>>
    /\ UNCHANGED <<sessionData, liveState, createVars, scanVars>>

\* onChange of the Roll Number input
ChangeRollNo(text) ==
    /\ page = "home" /\ showStudentDialog
    /\ text # rollNo
    /\ rollNo' = text
    /\ error' = ""
    /\ lastOp' = Op("changeRollNo", 0, FALSE)
    /\ UNCHANGED <<showTeacherDialog, showStudentDialog, teacherId, isVerifying, verifications,
                   locationState>>
    /\ UNCHANGED <<sessionData, liveState, createVars, scanVars>>

\* the call of verifications that the next timer callback resumes: the timers
\* of one kind fire in the order they were set
Resumable(i) ==
    /\ i \in 1..Len(verifications)
    /\ \A j \in 1..(i - 1) : verifications[j].kind # verifications[i].kind

\* navigate(...) of a resumed call: RoleSelection, if still rendered, is
\* unmounted and its state is gone
LeaveRoleSelection ==
    /\ showTeacherDialog' = FALSE
    /\ showStudentDialog' = FALSE
    /\ teacherId' = <<>>
    /\ rollNo' = <<>>
    /\ error' = ""
    /\ isVerifying' = FALSE

\* verifyTeacherId up to its await, from the Verify button (disabled while
\* isVerifying) or from the Enter key in the input (never disabled)
VerifyTeacherId ==
    /\ page = "home" /\ showTeacherDialog
    /\ IF TeacherIdMissing(teacherId)
       THEN /\ error' = "Please enter your Teacher ID"
            /\ UNCHANGED <<isVerifying, verifications>>
       ELSE /\ Len(verifications) < MaxVerifications
            /\ isVerifying' = TRUE
            /\ error' = ""
            /\ verifications' = Append(verifications, TeacherVerification(teacherId))
    /\ lastOp' = Op("verifyTeacherId", 0, verifications # <<>>)
    /\ UNCHANGED <<showTeacherDialog, showStudentDialog, teacherId, rollNo, locationState>>
    /\ UNCHANGED <<sessionData, liveState, createVars, scanVars>>

\* verifyTeacherId after its await, with the teacherId of its closure: a
\* listed ID closes the dialog and navigates to the create page, any other
\* sets the error; then setIsVerifying(false).  On a RoleSelection that is
\* no longer rendered the setters do nothing, navigate still works
ResumeVerifyTeacherId(i) ==
    /\ Resumable(i)
    /\ verifications[i].kind = "teacher"
    /\ verifications' = Without(verifications, i)
    /\ IF ToUpperCase(verifications[i].teacherId) \in VALID_TEACHER_IDS
       THEN /\ page' = "create"
            /\ locationState' = [teacherId |-> ToUpperCase(verifications[i].teacherId),
                                 rollNo |-> NaN]
            /\ LeaveRoleSelection
       ELSE /\ error' = IF page = "home" THEN "ID is wrong. Please check and try again."
                        ELSE error
            /\ isVerifying' = FALSE
            /\ UNCHANGED <<page, locationState, showTeacherDialog, showStudentDialog,
                           teacherId, rollNo>>
    /\ lastOp' = Op("resumeVerifyTeacherId", 0, Len(verifications) > 1)
    /\ UNCHANGED <<variant, form, isCreating, formError, pendingNavigation>>
    /\ UNCHANGED <<sessionData, liveState, scanVars>>

\* verifyRollNo up to its await, from the Continue button (disabled while
\* isVerifying) or from the Enter key in the input (never disabled)
VerifyRollNo ==
    /\ page = "home" /\ showStudentDialog
    /\ IF RollNoInvalid(rollNo)
       THEN /\ error' = "Please enter a valid Roll Number (greater than 0)"
            /\ UNCHANGED <<isVerifying, verifications>>
       ELSE /\ Len(verifications) < MaxVerifications
            /\ isVerifying' = TRUE
            /\ error' = ""
            /\ verifications' = Append(verifications, StudentVerification(ParseInt(rollNo)))
    /\ lastOp' = Op("verifyRollNo", 0, verifications # <<>>)
    /\ UNCHANGED <<showTeacherDialog, showStudentDialog, teacherId, rollNo, locationState>>
    /\ UNCHANGED <<sessionData, liveState, createVars, scanVars>>

\* verifyRollNo after its await: the dialog is closed and the page navigates
\* to the scan page with the rollNumber of the closure
ResumeVerifyRollNo(i) ==
    /\ Resumable(i)
    /\ verifications[i].kind = "student"
    /\ verifications' = Without(verifications, i)
    /\ page' = "scan"
    /\ locationState' = [teacherId |-> <<>>, rollNo |-> verifications[i].rollNumber]
    /\ LeaveRoleSelection
    /\ lastOp' = Op("resumeVerifyRollNo", 0, Len(verifications) > 1)
    /\ UNCHANGED <<variant, form, isCreating, formError, pendingNavigation>>
    /\ UNCHANGED <<sessionData, liveState, scanVars>>

SetTeacherId == \E text \in TeacherIdTexts : ChangeTeacherId(text)

SetRollNo == \E text \in RollNoTexts : ChangeRollNo(text)

ResumeVerification ==
    \E i \in 1..Len(verifications) : ResumeVerifyTeacherId(i) \/ ResumeVerifyRollNo(i)

NextRole ==
    \/ HandleTeacherClick
    \/ HandleStudentClick
    \/ CloseDialog
    \/ SetTeacherId
    \/ SetRollNo
    \/ VerifyTeacherId
    \/ VerifyRollNo
    \/ ResumeVerification

SpecRole == RoleInit /\ [][NextRole]_vars

\* --------------------------------------------------- the StudentScan page
\* the state after the StudentScan page is constructed, with or without a
\* roll number in location.state
ScanInit ==
    /\ page = "scan"
    /\ locationState \in {NoLocationState} \cup
            {[teacherId |-> <<>>, rollNo |-> Num(k)] : k \in 0..MaxRollNo}
    /\ StudentScanInit
    /\ RoleSelectionInit
    /\ verifications = <<>>
    /\ variant = "CreateSession.tsx"
    /\ form = EmptyForm
    /\ isCreating = FALSE
    /\ formError = ""
    /\ pendingNavigation = NoNavigation
    /\ sessionData = NoSessionData
    /\ mounted = FALSE
    /\ timeRemaining = 0
    /\ isActive = TRUE
    /\ attendance = <<>>
    /\ showStopDialog = FALSE
    /\ sessionEnded = FALSE
    /\ clock = 0
    /\ intervalAttendance = <<>>
    /\ endSessionCalls = <<>>
    /\ lastReport = <<>>
    /\ lastOp = Op("init", 0, FALSE)

\* what the scan actions leave alone
offScan == <<sessionData, liveState, createVars, showTeacherDialog, showStudentDialog,
             teacherId, rollNo, error, isVerifying, verifications, locationState>>

\* a mount effect that starts the camera whatever rollNo is
ScanMountWithoutGuard ==
    /\ page = "scan" /\ ~scanMounted
    /\ scanMounted' = TRUE
    /\ cameraRequest' = "pending"
    /\ lastOp' = Op("scanMount", locationState.rollNo.n, FALSE)
    /\ UNCHANGED <<page, variant, form, isCreating, formError, pendingNavigation>>
    /\ UNCHANGED <<cameraActive, cameraError, isScanning, attendanceMarked, stream,
                   autoScanTimeout, fallbackTimeout, markTimeouts, simulateScanCalls,
                   attendanceLog>>
    /\ UNCHANGED <<sessionData, liveState, roleVars>>

\* the effects of the first render: without a roll number navigate("/"),
\* which unmounts the page; otherwise startCamera() up to its await
ScanMount ==
    /\ page = "scan" /\ ~scanMounted
    /\ IF RollNoMissing(locationState)
       THEN /\ page' = "home"
            /\ UNCHANGED <<scanMounted, cameraRequest>>
       ELSE /\ scanMounted' = TRUE
            /\ cameraRequest' = "pending"
            /\ UNCHANGED page
    /\ lastOp' = Op("scanMount", locationState.rollNo.n, FALSE)
    /\ UNCHANGED <<variant, form, isCreating, formError, pendingNavigation>>
    /\ UNCHANGED <<cameraActive, cameraError, isScanning, attendanceMarked, stream,
                   autoScanTimeout, fallbackTimeout, markTimeouts, simulateScanCalls,
                   attendanceLog>>
    /\ UNCHANGED <<sessionData, liveState, roleVars>>

\* the <video> element is rendered: videoRef.current is not null
VideoRendered == scanMounted /\ ~attendanceMarked /\ cameraError = ""

\* getUserMedia resolves: the stream is attached to the video, and the commit
\* of setCameraActive(true) runs the auto-scan effect
CameraGranted ==
    /\ cameraRequest = "pending"
    /\ cameraRequest' = "settled"
    /\ IF VideoRendered
       THEN /\ stream' = "attached"
            /\ cameraActive' = TRUE
            /\ cameraError' = ""
            /\ autoScanTimeout' = AutoScanEffect(TRUE, attendanceMarked)
       ELSE /\ stream' = "loose"
            /\ UNCHANGED <<cameraActive, cameraError, autoScanTimeout>>
    /\ lastOp' = Op("cameraGranted", locationState.rollNo.n, FALSE)
    /\ UNCHANGED <<scanMounted, isScanning, attendanceMarked, fallbackTimeout, markTimeouts,
                   simulateScanCalls, attendanceLog>>
    /\ UNCHANGED offScan

\* a catch branch that only reports the error
CameraDeniedWithoutFallback ==
    /\ cameraRequest = "pending"
    /\ cameraRequest' = "settled"
    /\ cameraError' = IF scanMounted
                      THEN "Unable to access camera. Please grant camera permissions."
                      ELSE cameraError
    /\ lastOp' = Op("cameraDenied", locationState.rollNo.n, FALSE)
    /\ UNCHANGED <<scanMounted, cameraActive, isScanning, attendanceMarked, stream,
                   autoScanTimeout, fallbackTimeout, markTimeouts, simulateScanCalls,
                   attendanceLog>>
    /\ UNCHANGED offScan

\* getUserMedia rejects: setCameraError(...) and setTimeout(simulateScan, 3000)
CameraDenied ==
    /\ cameraRequest = "pending"
    /\ cameraRequest' = "settled"
    /\ cameraError' = IF scanMounted
                      THEN "Unable to access camera. Please grant camera permissions."
                      ELSE cameraError
    /\ fallbackTimeout' = TRUE
    /\ lastOp' = Op("cameraDenied", locationState.rollNo.n, FALSE)
    /\ UNCHANGED <<scanMounted, cameraActive, isScanning, attendanceMarked, stream,
                   autoScanTimeout, markTimeouts, simulateScanCalls, attendanceLog>>
    /\ UNCHANGED offScan

\* simulateScan: setIsScanning(true) and the setTimeout that marks the
\* attendance 1.5 s later
StudentSimulateScan ==
    /\ isScanning' = (scanMounted \/ isScanning)
    /\ markTimeouts' = markTimeouts + 1
    /\ simulateScanCalls' = simulateScanCalls + 1

\* the timeout of the auto-scan effect fires
AutoScanFires ==
    /\ autoScanTimeout
    /\ autoScanTimeout' = FALSE
    /\ StudentSimulateScan
    /\ lastOp' = Op("autoScan", locationState.rollNo.n, simulateScanCalls > 0)
    /\ UNCHANGED <<scanMounted, cameraActive, cameraError, attendanceMarked, cameraRequest,
                   stream, fallbackTimeout, attendanceLog>>
    /\ UNCHANGED offScan

\* the timeout set in the catch branch of startCamera fires; it is not
\* cleared when the page is left
FallbackFires ==
    /\ fallbackTimeout
    /\ fallbackTimeout' = FALSE
    /\ StudentSimulateScan
    /\ lastOp' = Op("fallbackScan", locationState.rollNo.n, simulateScanCalls > 0)
    /\ UNCHANGED <<scanMounted, cameraActive, cameraError, attendanceMarked, cameraRequest,
                   stream, autoScanTimeout, attendanceLog>>
    /\ UNCHANGED offScan

\* the timeout of simulateScan fires: setIsScanning(false),
\* setAttendanceMarked(true), stopCamera() and the log; the commit re-runs
\* the auto-scan effect if attendanceMarked changed.  On a page that was left
\* only the log is written
MarkAttendance ==
    /\ markTimeouts > 0
    /\ markTimeouts' = markTimeouts - 1
    /\ attendanceLog' = Append(attendanceLog,
                                [rollNo |-> locationState.rollNo.n, timestamp |-> clock])
    /\ IF scanMounted
       THEN /\ isScanning' = FALSE
            /\ attendanceMarked' = TRUE
            /\ stream' = IF stream = "attached" THEN "stopped" ELSE stream
            /\ autoScanTimeout' = IF attendanceMarked THEN autoScanTimeout
                                  ELSE AutoScanEffect(cameraActive, TRUE)
       ELSE UNCHANGED <<isScanning, attendanceMarked, stream, autoScanTimeout>>
    /\ lastOp' = Op("markAttendance", locationState.rollNo.n, attendanceMarked)
    /\ UNCHANGED <<scanMounted, cameraActive, cameraError, cameraRequest, fallbackTimeout,
                   simulateScanCalls>>
    /\ UNCHANGED offScan

\* the Back and Back to Home buttons: navigate("/") unmounts the page; the
\* cleanups stop the camera and clear the auto-scan timeout, the state is gone
LeaveScan ==
    /\ page = "scan" /\ scanMounted
    /\ page' = "home"
    /\ scanMounted' = FALSE
    /\ stream' = IF stream = "attached" THEN "stopped" ELSE stream
    /\ autoScanTimeout' = FALSE
    /\ cameraActive' = FALSE
    /\ cameraError' = ""
    /\ isScanning' = FALSE
    /\ attendanceMarked' = FALSE
    /\ lastOp' = Op("leaveScan", locationState.rollNo.n, FALSE)
    /\ UNCHANGED <<cameraRequest, fallbackTimeout, markTimeouts, simulateScanCalls,
                   attendanceLog>>
    /\ UNCHANGED <<variant, form, isCreating, formError, pendingNavigation>>
    /\ UNCHANGED <<sessionData, liveState, roleVars>>

NextScan ==
    \/ ScanMount
    \/ CameraGranted
    \/ CameraDenied
    \/ AutoScanFires
    \/ FallbackFires
    \/ MarkAttendance
    \/ LeaveScan
    \/ TimePasses

SpecScan == ScanInit /\ [][NextScan]_vars

\* the effects of the first render run, the camera request is settled one way
\* or the other, and a pending timeout callback is run by the browser
FairSpecScan ==
    /\ SpecScan
    /\ WF_vars(ScanMount)
    /\ WF_vars(CameraGranted \/ CameraDenied)
    /\ WF_vars(AutoScanFires)
    /\ WF_vars(FallbackFires)
    /\ WF_vars(MarkAttendance)

\* ------------------------------------------------------------- properties
\* the records of a list, whatever their order
Records(list) == {list[i] : i \in 1..Len(list)}

\* endSession has run from the countdown
Expired == \E i \in 1..Len(endSessionCalls) : endSessionCalls[i].via = "expiry"

\* endSession has run from confirmStopSession
Stopped == \E i \in 1..Len(endSessionCalls) : endSessionCalls[i].via = "stop"

\* C1: the attendance list never holds two records with the same roll number.
C1_OneRecordPerRoll ==
    \A i, j \in 1..Len(attendance) :
        i # j => attendance[i].rollNo # attendance[j].rollNo

\* every roll number of the batch is marked, after a repeated scan, with the
\* stop dialog open and the countdown under way
C1_Witness ==
    /\ sessionData.defined /\ sessionData.expectedBatch >= 2
    /\ Len(attendance) = sessionData.expectedBatch
    /\ lastOp.op = "scan" /\ lastOp.already
    /\ showStopDialog /\ isActive
    /\ timeRemaining < InitialTime(sessionData)

\* C2: a scan of a roll number that is already marked leaves the attendance
\* list as it was: same count, same records, the markedAt of the first marking.
C2_RepeatedMarkIsNoOp ==
    [][\A k \in 1..MaxBatch :
          (SimulateScan(k) /\ Find(attendance, k)) => attendance' = attendance]_vars

\* a roll number was scanned again at a later time than its first marking
C2_Witness ==
    /\ lastOp.op = "scan" /\ lastOp.already
    /\ \E i \in 1..Len(attendance) :
          attendance[i].rollNo = lastOp.rollNo /\ attendance[i].markedAt < clock

\* C3: once the session has ended, by stop or by expiry, no step adds, drops
\* or alters a record, and no scan interval is left to deliver a mark.
C3_NoMarkAfterEnd ==
    [][sessionEnded =>
          /\ ~ScanInterval
          /\ Len(attendance') = Len(attendance)
          /\ Records(attendance') = Records(attendance)]_vars

\* an ended session with a mark, in which a later handler has run
C3_Witness ==
    /\ sessionEnded /\ Len(attendance) >= 1
    /\ lastOp.op \in {"download", "cancelStop"}

\* C4: confirmStopSession leaves isActive false and sessionEnded true whatever
\* timeRemaining is, and from then on timeRemaining keeps its value, no
\* countdown or scan interval is registered and the records stay the same.
C4_StopIsImmediate ==
    [][/\ ConfirmStopSession => (~isActive' /\ sessionEnded')
       /\ Stopped =>
             /\ ~isActive /\ sessionEnded
             /\ ~CountdownInterval /\ ~ScanInterval
             /\ timeRemaining' = timeRemaining
             /\ Records(attendance') = Records(attendance)
             /\ (Tick \/ Scan) => attendance' = attendance]_vars

\* a session stopped early, with time left on the countdown
C4_Witness ==
    /\ Stopped /\ ~Expired
    /\ lastOp.op = "confirmStop"
    /\ timeRemaining > 1 /\ timeRemaining < InitialTime(sessionData)

\* C5: a countdown tick takes exactly 1 off timeRemaining; the tick that
\* reaches 0 ends the session and the others leave the phase alone; after
\* expiry the phase and timeRemaining never change; a session that expires
\* with no marks saves a count of 0 and has an empty report.
C5_CountdownToExpiry ==
    [][/\ Tick =>
             /\ timeRemaining' = timeRemaining - 1
             /\ timeRemaining' = 0 => (~isActive' /\ sessionEnded')
             /\ timeRemaining' > 0 => (isActive' /\ ~sessionEnded')
             /\ (timeRemaining' = 0 /\ attendance = <<>>) =>
                   /\ endSessionCalls'[Len(endSessionCalls')].totalPresent = 0
                   /\ endSessionCalls'[Len(endSessionCalls')].attendance = <<>>
                   /\ SortByRollNo(attendance') = <<>>
       /\ Expired => UNCHANGED <<timeRemaining, isActive, sessionEnded>>]_vars

\* a session with no marks that expired, and whose report was then downloaded
C5_Witness ==
    /\ Expired /\ ~Stopped
    /\ attendance = <<>> /\ endSessionCalls[1].totalPresent = 0
    /\ lastOp.op = "download" /\ lastReport = <<>>
    /\ timeRemaining = 0

\* C6: for a session configuration with expectedBatch > 0 and timerMinutes > 0
\* the state after the mount effects is Running, with timeRemaining equal to
\* timerMinutes * 60 and no attendance.
C6_StartIsRunning ==
    (/\ lastOp.op = "mount"
     /\ sessionData.defined
     /\ sessionData.expectedBatch > 0
     /\ sessionData.timerMinutes > 0) =>
        /\ isActive /\ ~sessionEnded
        /\ timeRemaining = sessionData.timerMinutes * 60
        /\ attendance = <<>>

\* a session that has just been started
C6_Witness ==
    /\ lastOp.op = "mount" /\ sessionData.defined
    /\ sessionData.expectedBatch > 0 /\ sessionData.timerMinutes > 0
    /\ timeRemaining >= 60

\* C7: endSession runs exactly once per session: never twice, and once when
\* the session has ended.
C7_EndSessionOnce ==
    /\ Len(endSessionCalls) <= 1
    /\ sessionEnded => Len(endSessionCalls) = 1

\* C8: once isActive is false or sessionEnded is true, they stay so: no step
\* returns the session to Running.
C8_EndedIsAbsorbing ==
    [][/\ sessionEnded => (sessionEnded' /\ ~isActive')
       /\ ~isActive => (~isActive' /\ sessionEnded')]_vars

\* the stop dialog was dismissed after the session had ended
C8_Witness ==
    /\ sessionEnded /\ ~isActive
    /\ lastOp.op = "cancelStop"

\* C9: a countdown tick never ends in a state with timeRemaining 0 and
\* isActive true, and no other step enters such a state.
C9_ExpiryIsAtomic ==
    [][/\ Tick => ~(timeRemaining' = 0 /\ isActive')
       /\ ~(timeRemaining = 0 /\ isActive) => ~(timeRemaining' = 0 /\ isActive')]_vars

\* the tick that brought timeRemaining to 0 has just run
C9_Witness ==
    /\ lastOp.op = "tick"
    /\ timeRemaining = 0 /\ ~isActive /\ sessionEnded

Rolls(list) == {list[i].rollNo : i \in 1..Len(list)}

\* C11: from every attendance list a running session reaches, two mark events
\* applied in either order give the same set of marked roll numbers, the
\* marked ones and the two delivered; so the set a session ends with depends
\* on which mark events arrived and not on their order.
C11_MarksCommute ==
    \A k1, k2 \in RandomRolls(sessionData.expectedBatch) :
        \A t1, t2 \in 0..MaxClock :
            LET first == Mark(Mark(attendance, k1, t1), k2, t2)
                second == Mark(Mark(attendance, k2, t2), k1, t1)
            IN  /\ Rolls(first) = Rolls(second)
                /\ Rolls(first) = Rolls(attendance) \cup {k1, k2}

\* a session ended after its marks arrived in descending order of roll number
C11_Witness ==
    /\ sessionEnded
    /\ Len(attendance) >= 2
    /\ attendance[1].rollNo > attendance[2].rollNo

\* C12: the rows that downloadReport writes are in strictly ascending order of
\* roll number and are exactly the marked roll numbers with their markedAt,
\* one row each, whatever the order the marks were recorded in and however
\* often a roll number was scanned.
C12_ReportSortedOnePerRoll ==
    [][DownloadReport =>
          /\ \A i \in 1..(Len(lastReport') - 1) : lastReport'[i][1] < lastReport'[i + 1][1]
          /\ {lastReport'[i] : i \in 1..Len(lastReport')}
                = {<<attendance[i].rollNo, attendance[i].markedAt>> : i \in 1..Len(attendance)}
          /\ Len(lastReport') = Cardinality(Rolls(attendance))]_vars

\* a report of two rows, of a session stopped with the higher roll number
\* recorded first
C12_Witness ==
    /\ lastOp.op = "download"
    /\ Len(lastReport) = 2
    /\ Stopped
    /\ Len(endSessionCalls[1].attendance) = 2
    /\ endSessionCalls[1].attendance[1].rollNo > endSessionCalls[1].attendance[2].rollNo

\* the rows a downloadReport would write in this state
ReportNow == ReportRows(SortByRollNo(attendance))

\* C13: downloadReport runs only in a session that has ended; and from the end
\* on the rows it would write never change, so a download that follows another
\* writes the same rows in the same order.
C13_ReportOnlyAfterEndAndStable ==
    [][/\ DownloadReport => (sessionEnded /\ ~isActive)
       /\ sessionEnded => ReportNow' = ReportNow
       /\ (DownloadReport /\ lastOp.op = "download") => lastReport' = lastReport]_vars

\* the report of an ended session with two marks was downloaded twice in a row
C13_Witness ==
    /\ lastOp.op = "download" /\ lastOp.already
    /\ sessionEnded
    /\ Len(lastReport) = 2

\* C16: downloadReport leaves timeRemaining, isActive, sessionEnded and the
\* attendance list held in state, its records and their order, unchanged.
C16_DownloadIsPureRead ==
    [][DownloadReport => UNCHANGED <<timeRemaining, isActive, sessionEnded, attendance>>]_vars

\* C17: confirmStopSession in a session that has already ended leaves
\* isActive, sessionEnded, timeRemaining and attendance unchanged.
C17_StopAfterEndIsNoOp ==
    [][(ConfirmStopSession /\ sessionEnded) =>
          UNCHANGED <<isActive, sessionEnded, timeRemaining, attendance>>]_vars

\* the dialog opened while Running was confirmed after the countdown expired
C17_Witness ==
    /\ lastOp.op = "confirmStop"
    /\ Expired /\ Stopped
    /\ endSessionCalls[1].via = "expiry"
    /\ ~isActive /\ sessionEnded /\ timeRemaining = 0
    /\ Len(attendance) >= 1

\* C18: what a run of endSession saves, its records and its totalPresent, is
\* the attendance held in state at that moment.
C18_SavedIsCurrentAttendance ==
    [][Len(endSessionCalls') > Len(endSessionCalls) =>
          /\ endSessionCalls'[Len(endSessionCalls')].attendance = attendance'
          /\ endSessionCalls'[Len(endSessionCalls')].totalPresent = Len(attendance')]_vars

\* C19: under FairSpec every live session with session data that is Running
\* (isActive true) eventually has sessionEnded true, whether or not the stop
\* dialog is ever opened or confirmed.
C19_SessionEventuallyEnds ==
    (sessionData.defined /\ isActive) ~> sessionEnded

\* a session that ran to expiry without the stop dialog ever being confirmed
C19_Witness ==
    /\ sessionData.defined /\ sessionEnded
    /\ Expired /\ ~Stopped
    /\ Len(endSessionCalls) = 1
    /\ ~showStopDialog
    /\ Len(attendance) >= 1

\* C20 as stated: while isActive is true no step increases timeRemaining.
C20_NonIncreasingWhileActive ==
    [][isActive => timeRemaining' <= timeRemaining]_vars

\* C20 as amended: once the timer-init effect of the mount has run, while
\* isActive is true no step increases timeRemaining.
C20_NonIncreasingOnceStarted ==
    [][(mounted /\ isActive) => timeRemaining' <= timeRemaining]_vars

\* a running session part of the way through its countdown
C20_Witness ==
    /\ mounted /\ sessionData.defined /\ isActive
    /\ lastOp.op = "tick"
    /\ timeRemaining > 0 /\ timeRemaining < InitialTime(sessionData) - 1

\* C14: a session configuration with expectedBatch <= 0 is rejected at
\* creation: handleSubmit never schedules the navigation to the live page
\* for it, and the live page is never entered with expectedBatch <= 0
C14_NonPositiveBatchRejected ==
    /\ pendingNavigation.defined =>
            ~pendingNavigation.expectedBatch.nan /\ pendingNavigation.expectedBatch.n > 0
    /\ page = "live" => sessionData.expectedBatch > 0

\* C15: in every state of a live session every recorded roll number is an
\* integer of 1..expectedBatch, a box of the displayed grid, so that the
\* marked count never exceeds expectedBatch
C15_RollsWithinBatch ==
    sessionData.defined =>
        /\ \A i \in 1..Len(attendance) : attendance[i].rollNo \in 1..sessionData.expectedBatch
        /\ Len(attendance) <= sessionData.expectedBatch

\* C21: when the live page is entered without session data, no countdown
\* tick and no mark takes effect and endSession is never invoked:
\* timeRemaining stays 0, attendance stays empty, the session neither runs
\* down nor ends
C21_NoSessionNothingHappens ==
    (page = "live" /\ ~sessionData.defined) =>
        /\ timeRemaining = 0
        /\ attendance = <<>>
        /\ endSessionCalls = <<>>
        /\ ~sessionEnded
        /\ ~showStopDialog

\* the page was entered without session data, its effects have run and time
\* has passed
C21_Witness ==
    /\ page = "live" /\ ~sessionData.defined
    /\ mounted
    /\ clock = MaxClock

\* C22: every live session started through the create form has a countdown
\* of timerMinutes * 60 seconds out of {120, 180, 240, 300}: handleSubmit
\* schedules no navigation with a missing or non-positive duration, and the
\* live page it opens starts its countdown at one of the four lengths
C22_CountdownLengths ==
    /\ pendingNavigation.defined =>
            /\ ~pendingNavigation.timerMinutes.nan
            /\ pendingNavigation.timerMinutes.n * SecondsPerMinute \in {120, 180, 240, 300}
    /\ page = "live" =>
            /\ sessionData.defined
            /\ InitialTime(sessionData) \in {120, 180, 240, 300}
            /\ mounted => timeRemaining = InitialTime(sessionData)

\* a live session started through the form has begun its longest countdown
C22_Witness ==
    /\ page = "live" /\ mounted
    /\ timeRemaining = 300

\* C23: handleSubmit starts a session only when all required fields are
\* filled: if any of them is empty it reports an error, leaves isCreating
\* false and schedules no navigation to the live page
C23_SubmitNeedsAllFields ==
    [][(HandleSubmit /\ \E field \in RequiredFields : form[field] = <<>>) =>
            /\ formError' # ""
            /\ ~isCreating'
            /\ pendingNavigation' = pendingNavigation]_vars

\* a submit with only timeTo left empty was answered with the error
C23_Witness ==
    /\ page = "create"
    /\ \A field \in RequiredFields : (form[field] = <<>>) <=> (field = "timeTo")
    /\ lastOp.op = "handleSubmit"
    /\ formError # ""
    /\ ~isCreating
    /\ ~pendingNavigation.defined

\* C24: a pending session creation is not cancelled by leaving the form:
\* "Back to Home" leaves the scheduled navigation in place, and once the
\* teacher is on the home page with the navigation pending, the live session
\* page is eventually entered
C24_PendingNavigationSurvivesBack ==
    /\ [][BackToHome => pendingNavigation' = pendingNavigation]_vars
    /\ (page = "home" /\ pendingNavigation.defined) ~> (page = "live" /\ sessionData.defined)

\* the live page was entered by a navigation that fired after the create
\* page had been left
C24_Witness ==
    /\ page = "live"
    /\ sessionData.defined
    /\ lastOp = Op("navigateToLive", 0, TRUE)

\* C25: verifyTeacherId navigates to the create page only with an entered ID
\* whose upper-cased form is listed in VALID_TEACHER_IDS; for an empty or
\* unlisted ID it sets an error, does not navigate and leaves the teacher
\* dialog as it is; and whenever a call finishes, at its early return or
\* after its await, isVerifying is false
C25_VerifyTeacherIdContract ==
    [][/\ (VerifyTeacherId /\ TeacherIdMissing(teacherId)) =>
                /\ error' # ""
                /\ page' = page
                /\ showTeacherDialog'
                /\ ~isVerifying'
       /\ \A i \in 1..Len(verifications) : ResumeVerifyTeacherId(i) =>
                /\ ~isVerifying'
                /\ IF ToUpperCase(verifications[i].teacherId) \in VALID_TEACHER_IDS
                   THEN /\ page' = "create"
                        /\ locationState'.teacherId = ToUpperCase(verifications[i].teacherId)
                   ELSE /\ page = "home" => error' # ""
                        /\ page' = page
                        /\ locationState' = locationState
                        /\ showTeacherDialog' = showTeacherDialog
       /\ (page' = "create" /\ locationState' # locationState) =>
                locationState'.teacherId \in VALID_TEACHER_IDS]_vars

\* C26: verifyRollNo navigates to the scan page only with a roll number that
\* parses to an integer greater than 0, and passes that integer as rollNo;
\* for an empty, non-numeric, zero or negative input it sets an error and
\* neither navigates nor starts a verification
C26_VerifyRollNoContract ==
    [][/\ (VerifyRollNo /\ (rollNo = <<>> \/ ParseInt(rollNo).nan \/ ParseInt(rollNo).n <= 0)) =>
                /\ error' # ""
                /\ page' = page
                /\ verifications' = verifications
                /\ locationState' = locationState
       /\ (VerifyRollNo /\ verifications' # verifications) =>
                /\ ~ParseInt(rollNo).nan /\ ParseInt(rollNo).n > 0
                /\ verifications'[Len(verifications')] = StudentVerification(ParseInt(rollNo))
       /\ \A i \in 1..Len(verifications) : ResumeVerifyRollNo(i) =>
                /\ page' = "scan"
                /\ locationState'.rollNo = verifications[i].rollNumber
                /\ ~locationState'.rollNo.nan /\ locationState'.rollNo.n > 0
       /\ (page' = "scan" /\ page # "scan") =>
                ~locationState'.rollNo.nan /\ locationState'.rollNo.n > 0]_vars

\* the scan page was entered with the roll number 7 typed into the dialog
C26_Witness ==
    /\ page = "scan"
    /\ lastOp.op = "resumeVerifyRollNo"
    /\ locationState.rollNo = Num(7)

\* C27: when the scan page is entered without a roll number, the mount
\* effect redirects to the home page and nothing else happens: the camera is
\* never requested, no scan is simulated, no timer is set and
\* attendanceMarked stays false
C27_NoRollNoOnlyRedirects ==
    RollNoMissing(locationState) =>
        /\ (lastOp.op = "scanMount") <=> (page = "home")
        /\ page \in {"scan", "home"}
        /\ ~scanMounted
        /\ cameraRequest = "none" /\ stream = "none" /\ ~cameraActive
        /\ simulateScanCalls = 0 /\ ~isScanning
        /\ ~autoScanTimeout /\ ~fallbackTimeout /\ markTimeouts = 0
        /\ ~attendanceMarked /\ attendanceLog = <<>>

\* the page was entered without a roll number, has redirected, and time has
\* passed since
C27_Witness ==
    /\ RollNoMissing(locationState)
    /\ page = "home"
    /\ lastOp.op = "scanMount"
    /\ clock = MaxClock

\* C28: entered with a roll number, and as long as the student stays on the
\* page, attendance is eventually confirmed, after a granted and after a
\* denied camera request alike, and the step that confirms it starts from
\* isScanning true
C28_AttendanceEventuallyConfirmed ==
    /\ (page = "scan" /\ ~RollNoMissing(locationState)) ~> (attendanceMarked \/ page # "scan")
    /\ (page = "scan" /\ cameraActive) ~> (attendanceMarked \/ page # "scan")
    /\ (page = "scan" /\ cameraError # "") ~> (attendanceMarked \/ page # "scan")
    /\ [][(~attendanceMarked /\ attendanceMarked') => isScanning]_vars

\* attendance was confirmed although the camera request had been denied
C28_Witness ==
    /\ page = "scan"
    /\ cameraError # ""
    /\ attendanceMarked

\* C29: attendance is recorded at most once per visit: simulateScan runs at
\* most once whichever way the camera request ends, once attendanceMarked is
\* true no scan is running or scheduled any more, and it stays true while
\* the page is shown
C29_MarkedAtMostOnce ==
    /\ [](simulateScanCalls <= 1 /\ Len(attendanceLog) <= 1)
    /\ [](attendanceMarked =>
            ~isScanning /\ ~autoScanTimeout /\ ~fallbackTimeout /\ markTimeouts = 0)
    /\ [][(attendanceMarked /\ page' = "scan") => attendanceMarked']_vars

\* attendance was confirmed through the camera, by the one simulateScan, and
\* time has passed since
C29_Witness ==
    /\ page = "scan"
    /\ attendanceMarked
    /\ stream = "stopped"
    /\ simulateScanCalls = 1
    /\ Len(attendanceLog) = 1 /\ attendanceLog[1].timestamp < clock

====
